---- MODULE Spec2Model ----
(***************************************************************************)
(* Audit-Trail-System-Backend: the relational store (users, tasks,         *)
(* audit_logs) and the request handlers of app/api and app/schemas/task.py *)
(* as a state machine.  One action per handler; the database faults a      *)
(* handler has a try/except for (a failing commit, a failing audit insert) *)
(* are inputs of the action.                                               *)
(*                                                                         *)
(* Optional values (Python None / a value) are <<>> / <<v>>.               *)
(* Columns no handler reads back (full_name, created_at, updated_at,       *)
(* user_ip, user_agent, action text, event_metadata) are left out.         *)
(***************************************************************************)
EXTENDS Integers, Sequences, FiniteSets, TLC

VARIABLES
    users,      \* table users: sequence of rows, the row's id is its index
    tasks,      \* table tasks: function from the ids of the stored tasks to rows
    task_seq,   \* number of task ids handed out so far (Task.id default)
    ledger,     \* table audit_logs, in insertion order
    now,        \* datetime.utcnow()
    last,       \* the last request served: its inputs, faults and response
    inflight    \* register requests between their existence check and their INSERT

vars == <<users, tasks, task_seq, ledger, now, last, inflight>>

----------------------------------------------------------------------------
\* Bounds of the model

MaxLedger == 3
MaxTasks == 1
MaxTime == 1
MaxClock == 3
MaxInflight == 2

\* settings.ACCESS_TOKEN_EXPIRE_MINUTES, in clock ticks
ACCESS_TOKEN_EXPIRE_MINUTES == 2

\* page_size: int = Query(50, ge=1, le=100)
PageSizeMax == 100

\* the clock ticks of a day: utcnow().replace(hour=0, minute=0, ...) is the
\* last multiple of it
DayLength == 1

None == <<>>
Some(v) == <<v>>

AdminEmail == "admin@x"
UserEmails == {"a@x", "b@x", "c@x"}
Emails == {AdminEmail} \cup UserEmails
Passwords == {"Secret123", "secret123"}
RegisterPassword == "Secret123"

Titles == {"Fix bug", "Fix login bug"}
Descriptions == {None}
TaskStatuses == {"todo", "in_progress"}
TaskPriorities == {"medium"}

AuditEventType ==
    {"USER_REGISTER", "USER_LOGIN", "USER_LOGOUT", "USER_LOGIN_FAILED",
     "TASK_CREATE", "TASK_UPDATE", "TASK_DELETE", "TASK_ASSIGN"}

\* ids a request may name: the ids of the rows that can exist and one that never does
UserIdInputs == 0..Cardinality(Emails)
TaskIdInputs == 1..MaxTasks

----------------------------------------------------------------------------
\* app/core/security.py

hash_password(password) == <<"bcrypt", password>>

verify_password(plain_password, hashed_password) ==
    hashed_password = hash_password(plain_password)

\* A token is its payload (sub, exp) and whether its signature is the one
\* SECRET_KEY gives for that payload.
create_access_token(sub, expires_delta) ==
    LET expire == IF expires_delta # None /\ expires_delta[1] # 0
                  THEN now + expires_delta[1]
                  ELSE now + ACCESS_TOKEN_EXPIRE_MINUTES
    IN [sub |-> sub, exp |-> expire, sig |-> "good"]

\* jwt.decode without the signature check
verify_token_unsigned(token) ==
    IF token.sig = "malformed" THEN None
    ELSE IF token.exp < now THEN None
    ELSE Some([sub |-> token.sub, exp |-> token.exp])

\* jwt.decode without the exp check
verify_token_unexpiring(token) ==
    IF token.sig # "good" THEN None
    ELSE Some([sub |-> token.sub, exp |-> token.exp])

\* jwt.decode raises ExpiredSignatureError once exp is in the past and a
\* JWTError for a bad signature or a string that is no JWT
verify_token(token) ==
    IF token.sig # "good" THEN None
    ELSE IF token.exp < now THEN None
    ELSE Some([sub |-> token.sub, exp |-> token.exp])

decode_token(token) ==
    LET payload == verify_token(token)
    IN IF payload # None THEN payload[1].sub ELSE None

\* the tokens a client may present: signed and unexpired for every id ...
SessionTokens ==
    {[sub |-> Some(i), exp |-> MaxTime + ACCESS_TOKEN_EXPIRE_MINUTES, sig |-> "good"] :
        i \in 1..Cardinality(Emails)}

\* ... and for an id of no user, without a subject, expired at time 1, tampered with
TokenInputs ==
    SessionTokens
    \cup {[sub |-> Some(0), exp |-> MaxTime + ACCESS_TOKEN_EXPIRE_MINUTES, sig |-> "good"],
          [sub |-> None, exp |-> MaxTime + ACCESS_TOKEN_EXPIRE_MINUTES, sig |-> "good"],
          [sub |-> Some(2), exp |-> 0, sig |-> "good"],
          [sub |-> Some(2), exp |-> MaxTime + ACCESS_TOKEN_EXPIRE_MINUTES, sig |-> "bad"]}

----------------------------------------------------------------------------
\* Queries on the tables

UserIds == DOMAIN users

\* a lookup that falls back on the first row when no row has the email
UserByEmailOrFirst(email) ==
    IF {i \in UserIds : users[i].email = email} = {} THEN {1}
    ELSE {i \in UserIds : users[i].email = email}

UserByEmail(email) == {i \in UserIds : users[i].email = email}

IsAdmin(uid) == users[uid].role = "ADMIN"

----------------------------------------------------------------------------
\* app/core/dependencies.py

\* get_current_user answering 401 for an inactive account
get_current_user_401(token) ==
    LET user_id == decode_token(token)
    IN IF user_id = None
       THEN [status |-> 401, user |-> None]
       ELSE IF user_id[1] \notin UserIds \/ ~users[user_id[1]].is_active
       THEN [status |-> 401, user |-> None]
       ELSE [status |-> 200, user |-> user_id]

\* get_current_user without the is_active test
get_current_user_any_state(token) ==
    LET user_id == decode_token(token)
    IN IF user_id = None
       THEN [status |-> 401, user |-> None]
       ELSE IF user_id[1] \notin UserIds
       THEN [status |-> 401, user |-> None]
       ELSE [status |-> 200, user |-> user_id]

\* [status, user]: 200 with the user's id, or the HTTPException raised
get_current_user(token) ==
    LET user_id == decode_token(token)
    IN IF user_id = None
       THEN [status |-> 401, user |-> None]
       ELSE IF user_id[1] \notin UserIds
       THEN [status |-> 401, user |-> None]
       ELSE IF ~users[user_id[1]].is_active
       THEN [status |-> 403, user |-> None]
       ELSE [status |-> 200, user |-> user_id]

\* the role check left out
any_current_user(token) == get_current_user(token)

get_current_admin_user(token) ==
    LET cur == get_current_user(token)
    IN IF cur.status # 200 THEN cur
       ELSE IF users[cur.user[1]].role # "ADMIN"
       THEN [status |-> 403, user |-> None]
       ELSE cur

\* security = HTTPBearer(): auto_error is on, so a request without a Bearer
\* Authorization header is answered with an error before the body of the
\* dependency runs: 403, or 401 in later releases of the framework
HTTPBearer(credentials) == IF credentials = None THEN {401, 403} ELSE {200}

\* [status, user]: 200 with the user's id or None, or the error of the scheme
get_optional_user(credentials) ==
    LET user_id == decode_token(credentials[1])
    IN {IF st # 200 THEN [status |-> st, user |-> None]
        ELSE IF user_id = None THEN [status |-> 200, user |-> None]
        ELSE IF user_id[1] \notin UserIds THEN [status |-> 200, user |-> None]
        ELSE IF ~users[user_id[1]].is_active THEN [status |-> 200, user |-> None]
        ELSE [status |-> 200, user |-> user_id] : st \in HTTPBearer(credentials)}

----------------------------------------------------------------------------
\* app/utils/audit_logger.py

AuditRow(uid, event_type, resource_type, resource_id, changes, status) ==
    [id |-> Len(ledger) + 1,
     timestamp |-> now,
     user_id |-> uid,
     user_email |-> users[uid].email,
     event_type |-> event_type,
     resource_type |-> resource_type,
     resource_id |-> resource_id,
     changes |-> changes,
     status |-> status]

\* a write that lands on the newest row instead of adding one
overwrite_audit_log(log, row) == [log EXCEPT ![Len(log)] = row]

\* db.add(audit_log); db.commit()
create_audit_log(log, row) == Append(log, row)

\* a failed attempt written like a successful one
log_user_login_as_success(uid, success) ==
    AuditRow(uid, "USER_LOGIN", None, None, None, "success")

log_user_login(uid, success) ==
    AuditRow(uid, IF success THEN "USER_LOGIN" ELSE "USER_LOGIN_FAILED",
             None, None, None, IF success THEN "success" ELSE "failure")

----------------------------------------------------------------------------
\* The request record

Idle ==
    [op |-> "none",        \* the handler
     bearer |-> None,      \* the token of the Authorization header
     input |-> <<>>,       \* the credentials of the body (register, login)
     target |-> None,      \* the id of the path, or the user_id filter
     audit |-> "none",     \* the audit INSERT: none, ok or failed
     commit |-> "none",    \* the handler's own commit: none, ok or failed
     status |-> 0,         \* the HTTP status of the response
     user |-> None,        \* the id of the identity the handler worked for
     logs |-> <<>>,        \* the audit rows of the response
     total |-> 0,          \* its total
     token |-> None,       \* its access_token
     payload |-> None,     \* what a function called on its own returned
     detail |-> ""]        \* the detail of the HTTPException of login

Fault(ok) == IF ok THEN "ok" ELSE "failed"

\* The store after the seeded administrator and the registrations of a@x and
\* b@x, each with its USER_REGISTER row.
SeedUser(email, role) ==
    [email |-> email, password_hash |-> hash_password(RegisterPassword),
     role |-> role, is_active |-> TRUE, last_login |-> None]

SeedRow(id, uid, email) ==
    [id |-> id, timestamp |-> 0, user_id |-> uid, user_email |-> email,
     event_type |-> "USER_REGISTER", resource_type |-> Some("user"),
     resource_id |-> Some(uid), changes |-> None, status |-> "success"]

Init ==
    /\ users = << SeedUser(AdminEmail, "ADMIN"), SeedUser("a@x", "USER"),
                  SeedUser("b@x", "USER") >>
    /\ tasks = << >>
    /\ task_seq = 0
    /\ ledger = << SeedRow(1, 2, "a@x"), SeedRow(2, 3, "b@x") >>
    /\ now = 0
    /\ last = Idle
    /\ inflight = << >>

Tick ==
    /\ now < MaxTime
    /\ now' = now + 1
    /\ last' = [Idle EXCEPT !.op = "tick"]
    /\ UNCHANGED <<users, tasks, task_seq, ledger, inflight>>

----------------------------------------------------------------------------
\* app/api/auth.py

\* a row whose role does not take the column's default
NewUserAsAdmin(email, password) ==
    [email |-> email, password_hash |-> hash_password(password),
     role |-> "ADMIN", is_active |-> TRUE, last_login |-> None]

NewUser(email, password) ==
    [email |-> email, password_hash |-> hash_password(password),
     role |-> "USER", is_active |-> TRUE, last_login |-> None]

\* users.email is unique=True: the INSERT of a second row with the email fails
UniqueEmail(email) == UserByEmail(email) = {}

\* the try block of register, ending in its except.  commit_ok: the INSERT of
\* the user commits; audit_ok: the INSERT of the audit row commits.
InsertUser(req, email, password, commit_ok, audit_ok) ==
    LET new_id == Len(users) + 1
    IN
    IF ~UniqueEmail(email) \/ ~commit_ok
    THEN \* db.commit() raises (IntegrityError included): rollback, 500
         /\ last' = [req EXCEPT !.status = 500, !.commit = "failed"]
         /\ UNCHANGED <<users, ledger>>
    ELSE /\ Len(ledger) < MaxLedger
         /\ users' = Append(users, NewUser(email, password))
         /\ IF audit_ok
            THEN /\ ledger' = create_audit_log(ledger,
                        [id |-> Len(ledger) + 1, timestamp |-> now,
                         user_id |-> new_id, user_email |-> email,
                         event_type |-> "USER_REGISTER",
                         resource_type |-> Some("user"),
                         resource_id |-> Some(new_id),
                         changes |-> None, status |-> "success"])
                 /\ last' = [req EXCEPT !.status = 201, !.user = Some(new_id),
                                !.commit = "ok", !.audit = "ok",
                                !.token = Some(create_access_token(Some(new_id), None))]
            ELSE \* log_user_register raises inside the try: the except answers 500
                 /\ ledger' = ledger
                 /\ last' = [req EXCEPT !.status = 500, !.user = Some(new_id),
                                !.commit = "ok", !.audit = "failed"]

\* POST /register served without another request in between
Register(email, password, commit_ok, audit_ok) ==
    LET req == [Idle EXCEPT !.op = "register", !.input = <<email, password>>]
    IN
    /\ UNCHANGED <<tasks, task_seq, now, inflight>>
    /\ IF UserByEmail(email) # {}
       THEN /\ last' = [req EXCEPT !.status = 409]
            /\ UNCHANGED <<users, ledger>>
       ELSE InsertUser(req, email, password, commit_ok, audit_ok)

\* POST /register up to its existence check: 409, or on to the INSERT
RegisterCheck(email, password) ==
    LET req == [Idle EXCEPT !.op = "register", !.input = <<email, password>>]
    IN
    /\ UNCHANGED <<users, tasks, task_seq, ledger, now>>
    /\ IF UserByEmail(email) # {}
       THEN /\ last' = [req EXCEPT !.status = 409]
            /\ UNCHANGED inflight
       ELSE /\ Len(inflight) < MaxInflight
            /\ inflight' = Append(inflight, [email |-> email, password |-> password])
            /\ UNCHANGED last

\* POST /register from db.add on, for the i-th request past its check
RegisterInsert(i, commit_ok, audit_ok) ==
    /\ i \in 1..Len(inflight)
    /\ LET email == inflight[i].email
           password == inflight[i].password
           req == [Idle EXCEPT !.op = "register", !.input = <<email, password>>]
       IN /\ inflight' = SubSeq(inflight, 1, i - 1) \o SubSeq(inflight, i + 1, Len(inflight))
          /\ UNCHANGED <<tasks, task_seq, now>>
          /\ InsertUser(req, email, password, commit_ok, audit_ok)

\* the audit failure reaching the caller
fail_on_audit_error(status, audit_ok) == IF audit_ok THEN status ELSE 500

\* the try/except around log_user_login and log_user_logout: the response
\* status once the audit step is over
after_auth_audit(status, audit_ok) == status

\* the details of the HTTPExceptions of login
unknown_email_detail == "Invalid email or password"
revealing_detail == "Incorrect password"
wrong_password_detail == "Invalid email or password"
inactive_detail == "Account is inactive. Please contact administrator."

\* a login that looks at is_active before the password
LoginActiveFirst(email, password, commit_ok, audit_ok) ==
    LET req == [Idle EXCEPT !.op = "login", !.input = <<email, password>>]
        found == UserByEmail(email)
        uid == CHOOSE i \in found : TRUE
        user == users[uid]
    IN
    /\ UNCHANGED <<tasks, task_seq, now, inflight>>
    /\ IF found = {}
       THEN /\ last' = [req EXCEPT !.status = 401, !.detail = unknown_email_detail]
            /\ UNCHANGED <<users, ledger>>
       ELSE IF ~user.is_active
       THEN /\ last' = [req EXCEPT !.status = 403, !.target = Some(uid),
                                   !.detail = inactive_detail]
            /\ UNCHANGED <<users, ledger>>
       ELSE IF ~verify_password(password, user.password_hash)
       THEN /\ Len(ledger) < MaxLedger
            /\ ledger' = IF audit_ok
                         THEN create_audit_log(ledger, log_user_login(uid, FALSE))
                         ELSE ledger
            /\ last' = [req EXCEPT !.status = 401, !.target = Some(uid),
                                   !.audit = Fault(audit_ok),
                                   !.detail = wrong_password_detail]
            /\ UNCHANGED users
       ELSE /\ Len(ledger) < MaxLedger
            /\ users' = IF commit_ok
                        THEN [users EXCEPT ![uid].last_login = Some(now)]
                        ELSE users
            /\ ledger' = IF audit_ok
                         THEN create_audit_log(ledger, log_user_login(uid, TRUE))
                         ELSE ledger
            /\ last' = [req EXCEPT !.status = after_auth_audit(200, audit_ok),
                                   !.user = Some(uid), !.target = Some(uid),
                                   !.commit = Fault(commit_ok),
                                   !.audit = Fault(audit_ok),
                                   !.token = IF after_auth_audit(200, audit_ok) = 200
                                             THEN Some(create_access_token(Some(uid), None))
                                             ELSE None]

\* POST /login.  commit_ok: the UPDATE of last_login commits.
Login(email, password, commit_ok, audit_ok) ==
    LET req == [Idle EXCEPT !.op = "login", !.input = <<email, password>>]
        found == UserByEmail(email)
        uid == CHOOSE i \in found : TRUE
        user == users[uid]
    IN
    /\ UNCHANGED <<tasks, task_seq, now, inflight>>
    /\ IF found = {}
       THEN /\ last' = [req EXCEPT !.status = 401, !.detail = unknown_email_detail]
            /\ UNCHANGED <<users, ledger>>
       ELSE IF ~verify_password(password, user.password_hash)
       THEN /\ Len(ledger) < MaxLedger
            /\ ledger' = IF audit_ok
                         THEN create_audit_log(ledger, log_user_login(uid, FALSE))
                         ELSE ledger
            /\ last' = [req EXCEPT !.status = 401, !.target = Some(uid),
                                   !.audit = Fault(audit_ok),
                                   !.detail = wrong_password_detail]
            /\ UNCHANGED users
       ELSE IF ~user.is_active
       THEN /\ last' = [req EXCEPT !.status = 403, !.target = Some(uid),
                                   !.detail = inactive_detail]
            /\ UNCHANGED <<users, ledger>>
       ELSE /\ Len(ledger) < MaxLedger
            /\ users' = IF commit_ok
                        THEN [users EXCEPT ![uid].last_login = Some(now)]
                        ELSE users
            /\ ledger' = IF audit_ok
                         THEN create_audit_log(ledger, log_user_login(uid, TRUE))
                         ELSE ledger
            /\ last' = [req EXCEPT !.status = after_auth_audit(200, audit_ok),
                                   !.user = Some(uid), !.target = Some(uid),
                                   !.commit = Fault(commit_ok),
                                   !.audit = Fault(audit_ok),
                                   !.token = IF after_auth_audit(200, audit_ok) = 200
                                             THEN Some(create_access_token(Some(uid), None))
                                             ELSE None]

\* a logout that revokes: the account is switched off with the session
LogoutRevoking(token, audit_ok) ==
    LET req == [Idle EXCEPT !.op = "logout", !.bearer = Some(token)]
        cur == get_current_user(token)
    IN
    /\ UNCHANGED <<tasks, task_seq, now, inflight>>
    /\ IF cur.status # 200
       THEN /\ last' = [req EXCEPT !.status = cur.status]
            /\ UNCHANGED <<users, ledger>>
       ELSE /\ Len(ledger) < MaxLedger
            /\ users' = [users EXCEPT ![cur.user[1]].is_active = FALSE]
            /\ ledger' = IF audit_ok
                         THEN create_audit_log(ledger,
                                  AuditRow(cur.user[1], "USER_LOGOUT", None, None,
                                           None, "success"))
                         ELSE ledger
            /\ last' = [req EXCEPT !.status = 200, !.user = cur.user,
                                   !.audit = Fault(audit_ok)]

\* POST /logout
Logout(token, audit_ok) ==
    LET req == [Idle EXCEPT !.op = "logout", !.bearer = Some(token)]
        cur == get_current_user(token)
    IN
    /\ UNCHANGED <<users, tasks, task_seq, now, inflight>>
    /\ IF cur.status # 200
       THEN /\ last' = [req EXCEPT !.status = cur.status]
            /\ UNCHANGED ledger
       ELSE /\ Len(ledger) < MaxLedger
            /\ ledger' = IF audit_ok
                         THEN create_audit_log(ledger,
                                  AuditRow(cur.user[1], "USER_LOGOUT", None, None,
                                           None, "success"))
                         ELSE ledger
            /\ last' = [req EXCEPT !.status = after_auth_audit(200, audit_ok),
                                   !.user = cur.user,
                                   !.audit = Fault(audit_ok)]

\* GET /me
GetMe(token) ==
    LET req == [Idle EXCEPT !.op = "me", !.bearer = Some(token)]
        cur == get_current_user(token)
    IN
    /\ UNCHANGED <<users, tasks, task_seq, ledger, now, inflight>>
    /\ last' = [req EXCEPT !.status = cur.status, !.user = cur.user]

\* an endpoint whose user is Depends(get_optional_user)
GetOptionalUser(credentials) ==
    /\ UNCHANGED <<users, tasks, task_seq, ledger, now, inflight>>
    /\ \E cur \in get_optional_user(credentials) :
          last' = [Idle EXCEPT !.op = "get_optional_user", !.bearer = credentials,
                               !.status = cur.status, !.user = cur.user]

----------------------------------------------------------------------------
\* app/core/security.py called on its own: a caller mints a token, holds it
\* while the clock moves on, and has it verified

Subjects == {None, Some(1), Some(2)}
ExpiresDeltas == {None, Some(-1), Some(0), Some(1), Some(3)}

CreateAccessToken(sub, expires_delta) ==
    /\ last' = [Idle EXCEPT !.op = "create_access_token",
                            !.input = <<sub, expires_delta>>,
                            !.token = Some(create_access_token(sub, expires_delta))]
    /\ UNCHANGED <<users, tasks, task_seq, ledger, now, inflight>>

\* the held token with another signature ("bad") or cut to a string that is
\* no JWT ("malformed")
Forge(sig) ==
    /\ last.token # None
    /\ last' = [last EXCEPT !.op = "forge", !.payload = None, !.user = None,
                            !.token = Some([@[1] EXCEPT !.sig = sig])]
    /\ UNCHANGED <<users, tasks, task_seq, ledger, now, inflight>>

VerifyToken ==
    /\ last.token # None
    /\ last' = [last EXCEPT !.op = "verify_token", !.user = None,
                            !.payload = verify_token(last.token[1])]
    /\ UNCHANGED <<users, tasks, task_seq, ledger, now, inflight>>

DecodeToken ==
    /\ last.token # None
    /\ last' = [last EXCEPT !.op = "decode_token", !.payload = None,
                            !.user = decode_token(last.token[1])]
    /\ UNCHANGED <<users, tasks, task_seq, ledger, now, inflight>>

\* datetime.utcnow() moves on
Elapse ==
    /\ now < MaxClock
    /\ now' = now + 1
    /\ UNCHANGED <<users, tasks, task_seq, ledger, last, inflight>>

----------------------------------------------------------------------------
\* app/schemas/task.py (the tasks router)

TaskIds == DOMAIN tasks

\* get_task, update_task: creator, assignee or ADMIN
CanAccessTask(uid, task) ==
    \/ users[uid].role = "ADMIN"
    \/ ~(task.created_by_id # uid /\ task.assigned_to_id # Some(uid))

\* delete_task with the check of get_task and update_task
CanDeleteAsAssignee(uid, task) == CanAccessTask(uid, task)

\* delete_task: creator or ADMIN
CanDeleteTask(uid, task) ==
    \/ users[uid].role = "ADMIN"
    \/ ~(task.created_by_id # uid)

\* GET /tasks/{task_id}
GetTask(token, task_id) ==
    LET req == [Idle EXCEPT !.op = "get_task", !.bearer = Some(token), !.target = Some(task_id)]
        cur == get_current_user(token)
    IN
    /\ UNCHANGED <<users, tasks, task_seq, ledger, now, inflight>>
    /\ IF cur.status # 200
       THEN last' = [req EXCEPT !.status = cur.status]
       ELSE IF task_id \notin TaskIds
       THEN last' = [req EXCEPT !.status = 404, !.user = cur.user]
       ELSE IF ~CanAccessTask(cur.user[1], tasks[task_id])
       THEN last' = [req EXCEPT !.status = 403, !.user = cur.user]
       ELSE last' = [req EXCEPT !.status = 200, !.user = cur.user]

\* the table with one more row
Put(table, id, row) ==
    [i \in DOMAIN table \cup {id} |-> IF i = id THEN row ELSE table[i]]

\* the table without a row
Remove(table, id) == [i \in DOMAIN table \ {id} |-> table[i]]

\* POST /tasks.  commit_ok: the INSERT of the task commits.
CreateTask(token, title, description, priority, assigned_to_id, commit_ok, audit_ok) ==
    LET req == [Idle EXCEPT !.op = "create_task", !.bearer = Some(token)]
        cur == get_current_user(token)
        new_id == task_seq + 1
        new_task == [title |-> title, description |-> description,
                     status |-> "todo", priority |-> priority,
                     created_by_id |-> cur.user[1],
                     assigned_to_id |-> assigned_to_id]
    IN
    /\ UNCHANGED <<users, now, inflight>>
    /\ IF cur.status # 200
       THEN /\ last' = [req EXCEPT !.status = cur.status]
            /\ UNCHANGED <<tasks, task_seq, ledger>>
       ELSE IF assigned_to_id # None /\ assigned_to_id[1] \notin UserIds
       THEN /\ last' = [req EXCEPT !.status = 404, !.user = cur.user]
            /\ UNCHANGED <<tasks, task_seq, ledger>>
       ELSE IF ~commit_ok
       THEN /\ last' = [req EXCEPT !.status = 500, !.user = cur.user,
                                   !.commit = "failed"]
            /\ UNCHANGED <<tasks, task_seq, ledger>>
       ELSE /\ Len(ledger) < MaxLedger
            /\ task_seq < MaxTasks
            /\ tasks' = Put(tasks, new_id, new_task)
            /\ task_seq' = new_id
            /\ IF audit_ok
               THEN /\ ledger' = create_audit_log(ledger,
                           AuditRow(cur.user[1], "TASK_CREATE", Some("task"),
                                    Some(new_id), None, "success"))
                    /\ last' = [req EXCEPT !.status = 201, !.user = cur.user,
                                   !.target = Some(new_id),
                                   !.commit = "ok", !.audit = "ok"]
               ELSE \* log_task_create raises inside the try, after the commit
                    /\ ledger' = ledger
                    /\ last' = [req EXCEPT !.status = 500, !.user = cur.user,
                                   !.target = Some(new_id),
                                   !.commit = "ok", !.audit = "failed"]

TaskFields == {"title", "description", "status", "priority", "assigned_to_id"}

\* old_data / new_data of update_task
Snapshot(task) == [f \in TaskFields |-> task[f]]

\* a changes dictionary with the before and after values in each other's place
ChangesSwapped(old_data, new_data) ==
    LET changed == {f \in DOMAIN new_data :
                       (IF f \in DOMAIN old_data THEN old_data[f] ELSE None) # new_data[f]}
    IN [f \in changed |-> [old |-> new_data[f],
                           new |-> IF f \in DOMAIN old_data THEN old_data[f] ELSE None]]

\* a changes dictionary with an entry for every field of the snapshot
ChangesOfAllFields(old_data, new_data) ==
    [f \in DOMAIN new_data |->
        [old |-> IF f \in DOMAIN old_data THEN old_data[f] ELSE None, new |-> new_data[f]]]

\* log_task_update: the changes dictionary.  old_data.get(field) is None for
\* a field the old snapshot lacks.
Changes(old_data, new_data) ==
    LET changed == {f \in DOMAIN new_data :
                       (IF f \in DOMAIN old_data THEN old_data[f] ELSE None) # new_data[f]}
    IN [f \in changed |-> [old |-> IF f \in DOMAIN old_data THEN old_data[f] ELSE None,
                           new |-> new_data[f]]]

\* "Update fields (only if provided)"
ApplyUpdate(task, title, description, status, priority, assigned_to_id) ==
    [task EXCEPT
        !.title = IF title # None THEN title[1] ELSE @,
        !.description = IF description # None THEN description ELSE @,
        !.status = IF status # None THEN status[1] ELSE @,
        !.priority = IF priority # None THEN priority[1] ELSE @,
        !.assigned_to_id = IF assigned_to_id # None THEN assigned_to_id ELSE @]

\* PUT /tasks/{task_id}.  Every field of the body is optional.
UpdateTask(token, task_id, title, description, status, priority, assigned_to_id, commit_ok, audit_ok) ==
    LET req == [Idle EXCEPT !.op = "update_task", !.bearer = Some(token), !.target = Some(task_id)]
        cur == get_current_user(token)
        task == tasks[task_id]
        updated == ApplyUpdate(task, title, description, status, priority,
                               assigned_to_id)
    IN
    /\ UNCHANGED <<users, task_seq, now, inflight>>
    /\ IF cur.status # 200
       THEN /\ last' = [req EXCEPT !.status = cur.status]
            /\ UNCHANGED <<tasks, ledger>>
       ELSE IF task_id \notin TaskIds
       THEN /\ last' = [req EXCEPT !.status = 404, !.user = cur.user]
            /\ UNCHANGED <<tasks, ledger>>
       ELSE IF ~CanAccessTask(cur.user[1], task)
       THEN /\ last' = [req EXCEPT !.status = 403, !.user = cur.user]
            /\ UNCHANGED <<tasks, ledger>>
       ELSE IF assigned_to_id # None /\ assigned_to_id[1] \notin UserIds
       THEN /\ last' = [req EXCEPT !.status = 404, !.user = cur.user]
            /\ UNCHANGED <<tasks, ledger>>
       ELSE IF ~commit_ok
       THEN /\ last' = [req EXCEPT !.status = 500, !.user = cur.user,
                                   !.commit = "failed"]
            /\ UNCHANGED <<tasks, ledger>>
       ELSE /\ Len(ledger) < MaxLedger
            /\ tasks' = [tasks EXCEPT ![task_id] = updated]
            /\ IF audit_ok
               THEN /\ ledger' = create_audit_log(ledger,
                           AuditRow(cur.user[1], "TASK_UPDATE", Some("task"),
                                    Some(task_id),
                                    Some(Changes(Snapshot(task), Snapshot(updated))),
                                    "success"))
                    /\ last' = [req EXCEPT !.status = 200, !.user = cur.user,
                                   !.commit = "ok", !.audit = "ok"]
               ELSE \* log_task_update raises inside the try, after the commit
                    /\ ledger' = ledger
                    /\ last' = [req EXCEPT !.status = 500, !.user = cur.user,
                                   !.commit = "ok", !.audit = "failed"]

\* DELETE /tasks/{task_id}.  The audit row is committed first, then the DELETE.
DeleteTask(token, task_id, audit_ok, commit_ok) ==
    LET req == [Idle EXCEPT !.op = "delete_task", !.bearer = Some(token), !.target = Some(task_id)]
        cur == get_current_user(token)
        task == tasks[task_id]
    IN
    /\ UNCHANGED <<users, task_seq, now, inflight>>
    /\ IF cur.status # 200
       THEN /\ last' = [req EXCEPT !.status = cur.status]
            /\ UNCHANGED <<tasks, ledger>>
       ELSE IF task_id \notin TaskIds
       THEN /\ last' = [req EXCEPT !.status = 404, !.user = cur.user]
            /\ UNCHANGED <<tasks, ledger>>
       ELSE IF ~CanDeleteTask(cur.user[1], task)
       THEN /\ last' = [req EXCEPT !.status = 403, !.user = cur.user]
            /\ UNCHANGED <<tasks, ledger>>
       ELSE IF ~audit_ok
       THEN /\ last' = [req EXCEPT !.status = 500, !.user = cur.user,
                                   !.audit = "failed"]
            /\ UNCHANGED <<tasks, ledger>>
       ELSE /\ Len(ledger) < MaxLedger
            /\ ledger' = create_audit_log(ledger,
                           AuditRow(cur.user[1], "TASK_DELETE", Some("task"),
                                    Some(task_id), None, "success"))
            /\ IF commit_ok
               THEN /\ tasks' = Remove(tasks, task_id)
                    /\ last' = [req EXCEPT !.status = 200, !.user = cur.user,
                                   !.audit = "ok", !.commit = "ok"]
               ELSE /\ tasks' = tasks
                    /\ last' = [req EXCEPT !.status = 500, !.user = cur.user,
                                   !.audit = "ok", !.commit = "failed"]

----------------------------------------------------------------------------
\* app/api/users.py

\* the check left out
NotProtected(user_id) == FALSE

\* "Cannot deactivate admin users"
IsProtected(user_id) == users[user_id].role = "ADMIN"

\* PATCH /users/{user_id}/deactivate
DeactivateUser(token, user_id, commit_ok) ==
    LET req == [Idle EXCEPT !.op = "deactivate_user", !.bearer = Some(token), !.target = Some(user_id)]
        cur == get_current_admin_user(token)
    IN
    /\ UNCHANGED <<tasks, task_seq, ledger, now, inflight>>
    /\ IF cur.status # 200
       THEN /\ last' = [req EXCEPT !.status = cur.status]
            /\ UNCHANGED users
       ELSE IF user_id \notin UserIds
       THEN /\ last' = [req EXCEPT !.status = 404, !.user = cur.user]
            /\ UNCHANGED users
       ELSE IF IsProtected(user_id)
       THEN /\ last' = [req EXCEPT !.status = 400, !.user = cur.user]
            /\ UNCHANGED users
       ELSE IF ~commit_ok
       THEN /\ last' = [req EXCEPT !.status = 500, !.user = cur.user,
                                   !.commit = "failed"]
            /\ UNCHANGED users
       ELSE /\ users' = [users EXCEPT ![user_id].is_active = FALSE]
            /\ last' = [req EXCEPT !.status = 200, !.user = cur.user,
                                   !.commit = "ok"]

\* activate_user with the check of deactivate_user
ActivateUserGuarded(token, user_id, commit_ok) ==
    LET req == [Idle EXCEPT !.op = "activate_user", !.bearer = Some(token), !.target = Some(user_id)]
        cur == get_current_admin_user(token)
    IN
    /\ UNCHANGED <<tasks, task_seq, ledger, now, inflight>>
    /\ IF cur.status # 200
       THEN /\ last' = [req EXCEPT !.status = cur.status]
            /\ UNCHANGED users
       ELSE IF user_id \notin UserIds
       THEN /\ last' = [req EXCEPT !.status = 404, !.user = cur.user]
            /\ UNCHANGED users
       ELSE IF IsProtected(user_id)
       THEN /\ last' = [req EXCEPT !.status = 400, !.user = cur.user]
            /\ UNCHANGED users
       ELSE IF ~commit_ok
       THEN /\ last' = [req EXCEPT !.status = 500, !.user = cur.user,
                                   !.commit = "failed"]
            /\ UNCHANGED users
       ELSE /\ users' = [users EXCEPT ![user_id].is_active = TRUE]
            /\ last' = [req EXCEPT !.status = 200, !.user = cur.user,
                                   !.commit = "ok"]

\* PATCH /users/{user_id}/activate
ActivateUser(token, user_id, commit_ok) ==
    LET req == [Idle EXCEPT !.op = "activate_user", !.bearer = Some(token), !.target = Some(user_id)]
        cur == get_current_admin_user(token)
    IN
    /\ UNCHANGED <<tasks, task_seq, ledger, now, inflight>>
    /\ IF cur.status # 200
       THEN /\ last' = [req EXCEPT !.status = cur.status]
            /\ UNCHANGED users
       ELSE IF user_id \notin UserIds
       THEN /\ last' = [req EXCEPT !.status = 404, !.user = cur.user]
            /\ UNCHANGED users
       ELSE IF ~commit_ok
       THEN /\ last' = [req EXCEPT !.status = 500, !.user = cur.user,
                                   !.commit = "failed"]
            /\ UNCHANGED users
       ELSE /\ users' = [users EXCEPT ![user_id].is_active = TRUE]
            /\ last' = [req EXCEPT !.status = 200, !.user = cur.user,
                                   !.commit = "ok"]

----------------------------------------------------------------------------
\* app/api/audit.py

Rows == {ledger[i] : i \in DOMAIN ledger}

\* the scope filter left out
AllRows(uid, rows) == rows

\* query.filter(AuditLog.user_id == current_user.id)
OwnRows(uid, rows) == {r \in rows : r.user_id = uid}

\* "Apply filters": event_type, start_date, end_date
ApplyFilters(rows, event_type, start_date, end_date) ==
    {r \in rows :
        /\ event_type # None => r.event_type = event_type[1]
        /\ start_date # None => r.timestamp >= start_date[1]
        /\ end_date # None => r.timestamp <= end_date[1]}

\* rows in the order of their insertion
RECURSIVE OrderById(_)
OrderById(rows) ==
    IF rows = {} THEN {<<>>}
    ELSE LET r == CHOOSE x \in rows : \A y \in rows : x.id <= y.id
         IN {<<r>> \o s : s \in OrderById(rows \ {r})}

\* order_by(AuditLog.timestamp.desc()): the orders the database may return
\* the rows in; rows of equal timestamp come in any order
RECURSIVE OrderByTimestampDesc(_)
OrderByTimestampDesc(rows) ==
    IF rows = {} THEN {<<>>}
    ELSE UNION {{<<r>> \o s : s \in OrderByTimestampDesc(rows \ {r})} :
                  r \in {x \in rows : \A y \in rows : x.timestamp >= y.timestamp}}

\* no constraint on the query parameters
AnyPaging(page, page_size) == TRUE

\* Query(1, ge=1) and Query(50, ge=1, le=100): a request outside them is
\* answered 422 before the handler's body runs
ValidPaging(page, page_size) ==
    page >= 1 /\ page_size >= 1 /\ page_size <= PageSizeMax

\* pages counted from 0
OffsetLimitFromZero(s, page, page_size) ==
    LET offset == page * page_size
    IN SubSeq(s, offset + 1, IF offset + page_size < Len(s)
                             THEN offset + page_size ELSE Len(s))

\* .offset((page - 1) * page_size).limit(page_size)
OffsetLimit(s, page, page_size) ==
    LET offset == (page - 1) * page_size
    IN SubSeq(s, offset + 1, IF offset + page_size < Len(s)
                             THEN offset + page_size ELSE Len(s))

\* GET /audit/logs
GetAuditLogs(token, page, page_size, user_id, event_type, start_date, end_date) ==
    LET req == [Idle EXCEPT !.op = "get_audit_logs", !.bearer = Some(token), !.target = user_id,
                            !.input = <<page, page_size, event_type, start_date, end_date>>]
        cur == get_current_user(token)
        uid == cur.user[1]
        scoped == IF users[uid].role # "ADMIN" THEN OwnRows(uid, Rows)
                  ELSE IF user_id # None THEN OwnRows(user_id[1], Rows)
                  ELSE Rows
        query == ApplyFilters(scoped, event_type, start_date, end_date)
    IN
    /\ UNCHANGED <<users, tasks, task_seq, ledger, now, inflight>>
    /\ IF cur.status # 200
       THEN last' = [req EXCEPT !.status = cur.status]
       ELSE IF ~ValidPaging(page, page_size)
       THEN last' = [req EXCEPT !.status = 422, !.user = cur.user]
       ELSE IF users[uid].role # "ADMIN" /\ user_id # None /\ user_id # Some(uid)
       THEN last' = [req EXCEPT !.status = 403, !.user = cur.user]
       ELSE \E s \in OrderByTimestampDesc(query) :
               last' = [req EXCEPT !.status = 200, !.user = cur.user,
                            !.logs = OffsetLimit(s, page, page_size),
                            !.total = Cardinality(query)]

\* a fetch that hides the rows of others as if they did not exist
GetAuditLogHiding(token, log_id) ==
    LET req == [Idle EXCEPT !.op = "get_audit_log", !.bearer = Some(token), !.target = Some(log_id)]
        cur == get_current_user(token)
        uid == cur.user[1]
        found == {r \in Rows : r.id = log_id /\ (users[uid].role = "ADMIN" \/ r.user_id = uid)}
        log == CHOOSE r \in found : TRUE
    IN
    /\ UNCHANGED <<users, tasks, task_seq, ledger, now, inflight>>
    /\ IF cur.status # 200
       THEN last' = [req EXCEPT !.status = cur.status]
       ELSE IF found = {}
       THEN last' = [req EXCEPT !.status = 404, !.user = cur.user]
       ELSE last' = [req EXCEPT !.status = 200, !.user = cur.user,
                         !.logs = <<log>>, !.total = 1]

\* GET /audit/logs/{log_id}
GetAuditLog(token, log_id) ==
    LET req == [Idle EXCEPT !.op = "get_audit_log", !.bearer = Some(token), !.target = Some(log_id)]
        cur == get_current_user(token)
        uid == cur.user[1]
        found == {r \in Rows : r.id = log_id}
        log == CHOOSE r \in found : TRUE
    IN
    /\ UNCHANGED <<users, tasks, task_seq, ledger, now, inflight>>
    /\ IF cur.status # 200
       THEN last' = [req EXCEPT !.status = cur.status]
       ELSE IF found = {}
       THEN last' = [req EXCEPT !.status = 404, !.user = cur.user]
       ELSE IF users[uid].role # "ADMIN" /\ log.user_id # uid
       THEN last' = [req EXCEPT !.status = 403, !.user = cur.user]
       ELSE last' = [req EXCEPT !.status = 200, !.user = cur.user,
                         !.logs = <<log>>, !.total = 1]

\* the last 24 hours instead of the current day
rolling_day_start(t) == t - DayLength

\* datetime.utcnow().replace(hour=0, minute=0, second=0, microsecond=0)
today_start(t) == t - (t % DayLength)

\* db.query(func.count(AuditLog.id)).filter(AuditLog.event_type == ...)
CountEvents(event_type) == Cardinality({r \in Rows : r.event_type = event_type})

\* GET /audit/stats
GetAuditStats(token) ==
    LET req == [Idle EXCEPT !.op = "get_audit_stats", !.bearer = Some(token)]
        cur == get_current_admin_user(token)
    IN
    /\ UNCHANGED <<users, tasks, task_seq, ledger, now, inflight>>
    /\ IF cur.status # 200
       THEN last' = [req EXCEPT !.status = cur.status]
       ELSE last' = [req EXCEPT !.status = 200, !.user = cur.user,
                 !.payload = Some(
                    [total_events |-> Cardinality(Rows),
                     events_today |->
                        Cardinality({r \in Rows : r.timestamp >= today_start(now)}),
                     failed_logins |-> CountEvents("USER_LOGIN_FAILED"),
                     total_users |-> Cardinality({r.user_id : r \in Rows}),
                     total_tasks_created |-> CountEvents("TASK_CREATE"),
                     total_tasks_updated |-> CountEvents("TASK_UPDATE"),
                     total_tasks_deleted |-> CountEvents("TASK_DELETE")])]

\* GET /audit/my-history
GetMyHistory(token, page, page_size, event_type, start_date, end_date) ==
    LET req == [Idle EXCEPT !.op = "get_my_history", !.bearer = Some(token),
                            !.input = <<page, page_size, event_type, start_date, end_date>>]
        cur == get_current_user(token)
        query == ApplyFilters(OwnRows(cur.user[1], Rows), event_type,
                              start_date, end_date)
    IN
    /\ UNCHANGED <<users, tasks, task_seq, ledger, now, inflight>>
    /\ IF cur.status # 200
       THEN last' = [req EXCEPT !.status = cur.status]
       ELSE IF ~ValidPaging(page, page_size)
       THEN last' = [req EXCEPT !.status = 422, !.user = cur.user]
       ELSE \E s \in OrderByTimestampDesc(query) :
               last' = [req EXCEPT !.status = 200, !.user = cur.user,
                            !.logs = OffsetLimit(s, page, page_size),
                            !.total = Cardinality(query)]

----------------------------------------------------------------------------
\* app/api/users.py, the read handlers

\* order_by(User.created_at.desc()): ids grow with the time of creation
RECURSIVE OrderByCreatedDesc(_)
OrderByCreatedDesc(ids) ==
    IF ids = {} THEN <<>>
    ELSE LET m == CHOOSE x \in ids : \A y \in ids : x >= y
         IN <<m>> \o OrderByCreatedDesc(ids \ {m})

\* GET /users
GetAllUsers(token, page, page_size, is_active) ==
    LET req == [Idle EXCEPT !.op = "get_all_users", !.bearer = Some(token),
                            !.input = <<page, page_size, is_active>>]
        cur == get_current_admin_user(token)
        query == {i \in UserIds : is_active # None => users[i].is_active = is_active[1]}
    IN
    /\ UNCHANGED <<users, tasks, task_seq, ledger, now, inflight>>
    /\ IF cur.status # 200
       THEN last' = [req EXCEPT !.status = cur.status]
       ELSE IF ~ValidPaging(page, page_size)
       THEN last' = [req EXCEPT !.status = 422, !.user = cur.user]
       ELSE last' = [req EXCEPT !.status = 200, !.user = cur.user,
                         !.payload = Some([users |->
                            OffsetLimit(OrderByCreatedDesc(query), page, page_size)])]

\* GET /users/{user_id}
GetUserById(token, user_id) ==
    LET req == [Idle EXCEPT !.op = "get_user_by_id", !.bearer = Some(token), !.target = Some(user_id)]
        cur == get_current_admin_user(token)
    IN
    /\ UNCHANGED <<users, tasks, task_seq, ledger, now, inflight>>
    /\ IF cur.status # 200
       THEN last' = [req EXCEPT !.status = cur.status]
       ELSE IF user_id \notin UserIds
       THEN last' = [req EXCEPT !.status = 404, !.user = cur.user]
       ELSE last' = [req EXCEPT !.status = 200, !.user = cur.user,
                         !.payload = Some([users |-> <<user_id>>])]

----------------------------------------------------------------------------
\* The requests, by router, over the inputs a specification draws them from

TokenOf(uid) ==
    [sub |-> Some(uid), exp |-> MaxTime + ACCESS_TOKEN_EXPIRE_MINUTES, sig |-> "good"]

AuthRequest(register_emails, login_emails, tokens, me_tokens, commits) ==
    \/ \E email \in register_emails, c \in commits, a \in BOOLEAN :
          Register(email, RegisterPassword, c, a)
    \/ \E email \in login_emails, pw \in Passwords, c \in commits, a \in BOOLEAN :
          Login(email, pw, c, a)
    \/ \E token \in tokens, a \in BOOLEAN : Logout(token, a)
    \/ \E token \in me_tokens : GetMe(token)

UserRequest(tokens, targets, commits) ==
    \/ \E token \in tokens, id \in targets, c \in commits :
          DeactivateUser(token, id, c)
    \/ \E token \in tokens, id \in targets, c \in commits :
          ActivateUser(token, id, c)

TaskRequest(creators, tokens, create_assignees, titles, statuses, assignees, commits) ==
    \/ \E token \in tokens, id \in TaskIdInputs : GetTask(token, id)
    \/ \E token \in creators, asg \in create_assignees, c \in commits, a \in BOOLEAN :
          CreateTask(token, "Fix bug", None, "medium", asg, c, a)
    \/ \E token \in tokens, id \in TaskIdInputs, title \in titles,
          st \in statuses, asg \in assignees, c \in commits, a \in BOOLEAN :
          UpdateTask(token, id, title, None, st, None, asg, c, a)
    \/ \E token \in tokens, id \in TaskIdInputs, a \in BOOLEAN, c \in BOOLEAN :
          DeleteTask(token, id, a, c)

AuditRequest(tokens, user_ids, log_ids) ==
    \/ \E token \in tokens, uid \in user_ids :
          GetAuditLogs(token, 1, 50, uid, None, None, None)
    \/ \E token \in tokens, id \in log_ids : GetAuditLog(token, id)
    \/ \E token \in tokens : GetMyHistory(token, 1, 50, None, None, None)

----------------------------------------------------------------------------
\* Authentication and user administration
NextAuth ==
    \/ Tick
    \/ AuthRequest({"a@x", "c@x"}, {"a@x", "nobody@x"}, {TokenOf(1), TokenOf(2)},
                   TokenInputs, BOOLEAN)
    \/ UserRequest({TokenOf(1), TokenOf(2)} \cup {t \in TokenInputs : t.sig = "bad"},
                   0..2, BOOLEAN)

SpecAuth == Init /\ [][NextAuth]_vars

\* Tasks
NextTask ==
    TaskRequest({TokenOf(2)}, {TokenOf(1), TokenOf(2), TokenOf(3)}, {None, Some(3)},
                {None, Some("Fix login bug")}, {None}, {None}, BOOLEAN)

SpecTask == Init /\ [][NextTask]_vars

\* Reading the ledger while logouts write to it
NextAudit ==
    \/ Tick
    \/ \E token \in {TokenOf(2), TokenOf(3)}, a \in BOOLEAN : Logout(token, a)
    \/ AuditRequest({TokenOf(1), TokenOf(2), TokenOf(3)},
                    {None, Some(2), Some(3)}, 1..MaxLedger)

SpecAudit == Init /\ [][NextAudit]_vars

\* Paging and filtering the ledger while logouts write to it
ListRequest(tokens, pages, page_sizes, user_ids, event_types, dates) ==
    \/ \E token \in tokens, page \in pages, page_size \in page_sizes, uid \in user_ids,
          et \in event_types, d \in dates :
          GetAuditLogs(token, page, page_size, uid, et, d[1], d[2])
    \/ \E token \in tokens, page \in pages, page_size \in page_sizes,
          et \in event_types :
          GetMyHistory(token, page, page_size, et, None, None)

NextList ==
    \/ Tick
    \/ Logout(TokenOf(2), TRUE)
    \/ ListRequest({TokenOf(1), TokenOf(2)}, {1, 2}, {1, 2, PageSizeMax + 1},
                   {None, Some(3)}, {None, Some("USER_LOGOUT")},
                   {<<None, None>>, <<Some(1), None>>, <<None, Some(0)>>})

SpecList == Init /\ [][NextList]_vars

\* Statistics over a ledger that logins, logouts and task mutations write to,
\* from the store after the seeded administrator and the registration of a@x
InitStats ==
    /\ users = << SeedUser(AdminEmail, "ADMIN"), SeedUser("a@x", "USER") >>
    /\ tasks = << >>
    /\ task_seq = 0
    /\ ledger = << SeedRow(1, 2, "a@x") >>
    /\ now = 0
    /\ last = Idle
    /\ inflight = << >>

NextStats ==
    \/ Tick
    \/ \E pw \in Passwords : Login("a@x", pw, TRUE, TRUE)
    \/ Logout(TokenOf(1), TRUE)
    \/ CreateTask(TokenOf(2), "Fix bug", None, "medium", None, TRUE, TRUE)
    \/ UpdateTask(TokenOf(2), 1, Some("Fix login bug"), None, None, None, None, TRUE, TRUE)
    \/ DeleteTask(TokenOf(2), 1, TRUE, TRUE)
    \/ \E token \in {TokenOf(1), TokenOf(2)} : GetAuditStats(token)

SpecStats == InitStats /\ [][NextStats]_vars

\* The administrator's operations, asked for by the administrator and by users
NextAdmin ==
    \/ UserRequest({TokenOf(1), TokenOf(2), TokenOf(3)}, 0..3, BOOLEAN)
    \/ \E token \in {TokenOf(1), TokenOf(2), TokenOf(3)} : GetAuditStats(token)
    \/ \E token \in {TokenOf(1), TokenOf(2), TokenOf(3)},
          is_active \in {None, Some(TRUE), Some(FALSE)} :
          GetAllUsers(token, 1, 2, is_active)
    \/ \E token \in {TokenOf(1), TokenOf(2), TokenOf(3)}, id \in 0..3 :
          GetUserById(token, id)
    \/ Logout(TokenOf(3), TRUE)

SpecAdmin == Init /\ [][NextAdmin]_vars

\* Resolving a token while the account is switched off and on and logs out
NextResolve ==
    \/ Tick
    \/ UserRequest({TokenOf(1)}, {2}, {TRUE})
    \/ Logout(TokenOf(2), TRUE)
    \/ \E token \in TokenInputs : GetMe(token)
    \/ \E credentials \in {None} \cup {Some(t) : t \in TokenInputs} :
          GetOptionalUser(credentials)

SpecResolve == Init /\ [][NextResolve]_vars

\* Registrations overlapping each other
NextRace ==
    \/ Tick
    \/ \E email \in {"a@x", "c@x"} : RegisterCheck(email, RegisterPassword)
    \/ \E i \in 1..MaxInflight, commit_ok, audit_ok \in BOOLEAN :
          RegisterInsert(i, commit_ok, audit_ok)
    \/ \E email \in {"a@x", "c@x"}, pw \in Passwords : Login(email, pw, TRUE, TRUE)

SpecRace == Init /\ [][NextRace]_vars

\* Logging in to an account that is switched off and on
NextLogin ==
    \/ Tick
    \/ \E email \in {"a@x", "nobody@x"}, pw \in Passwords, commit_ok, audit_ok \in BOOLEAN :
          Login(email, pw, commit_ok, audit_ok)
    \/ UserRequest({TokenOf(1)}, {2}, {TRUE})

SpecLogin == Init /\ [][NextLogin]_vars

\* Updates of one task by its creator
NextUpdate ==
    \/ \E audit_ok \in BOOLEAN :
          CreateTask(TokenOf(2), "Fix bug", None, "medium", None, TRUE, audit_ok)
    \/ \E title \in {None, Some("Fix bug"), Some("Fix login bug")},
          st \in {None, Some("todo"), Some("in_progress")}, asg \in {None, Some(1)},
          commit_ok, audit_ok \in BOOLEAN :
          UpdateTask(TokenOf(2), 1, title, None, st, None, asg, commit_ok, audit_ok)

SpecUpdate == InitStats /\ [][NextUpdate]_vars

\* Registration next to user administration
NextRoles ==
    \/ Tick
    \/ \E email \in {"a@x", "c@x"}, commit_ok, audit_ok \in BOOLEAN :
          Register(email, RegisterPassword, commit_ok, audit_ok)
    \/ UserRequest({TokenOf(1), TokenOf(2), TokenOf(4)}, 1..4, BOOLEAN)
    \/ \E token \in {TokenOf(1), TokenOf(4)}, audit_ok \in BOOLEAN : Logout(token, audit_ok)

SpecRoles == Init /\ [][NextRoles]_vars

\* Tokens
NextToken ==
    \/ \E sub \in Subjects, expires_delta \in ExpiresDeltas :
          CreateAccessToken(sub, expires_delta)
    \/ \E sig \in {"bad", "malformed"} : Forge(sig)
    \/ VerifyToken
    \/ DecodeToken
    \/ Elapse

SpecToken == Init /\ [][NextToken]_vars

\* Every request
Next ==
    \/ AuthRequest({"c@x"}, {"a@x"}, {TokenOf(2)}, {TokenOf(2)}, {TRUE})
    \/ UserRequest({TokenOf(1)}, {2}, {TRUE})
    \/ TaskRequest({TokenOf(2)}, {TokenOf(2)}, {None}, {Some("Fix login bug")},
                   {None}, {None}, {TRUE})
    \/ AuditRequest({TokenOf(2)}, {None}, {1})

Spec == Init /\ [][Next]_vars

----------------------------------------------------------------------------
\* Properties

IsPrefix(s, t) == Len(s) <= Len(t) /\ SubSeq(t, 1, Len(s)) = s

\* what a request's bearer token resolves to, stated from the token and the
\* users table: "invalid", "unknown", "inactive" or "ok"
Resolution(token, table, time) ==
    IF token.sig # "good" \/ token.exp < time \/ token.sub = None THEN "invalid"
    ELSE IF token.sub[1] \notin DOMAIN table THEN "unknown"
    ELSE IF ~table[token.sub[1]].is_active THEN "inactive"
    ELSE "ok"

\* C1. Append-only ledger: every request leaves the rows already in
\* audit_logs in place and unchanged; the ledger only grows, at its end.
C1_AppendOnly == [][IsPrefix(ledger, ledger')]_vars

\* C1 witness: a row written by create_audit_log is in the ledger and a later
\* request, which changed the store, has been served.
C1_Witness ==
    /\ Len(ledger) = 3
    /\ ledger[3].event_type = "TASK_CREATE"
    /\ last.op = "deactivate_user"
    /\ last.status = 200

\* C2. Scope invariant: a non-admin requester gets from get_audit_logs,
\* get_my_history and get_audit_log only rows whose user_id is the requester's
\* id, and a get_audit_logs call of a non-admin with the user_id filter of
\* somebody else is answered 403 with no rows.
C2_Scope ==
    (/\ last.op \in {"get_audit_logs", "get_my_history", "get_audit_log"}
     /\ Resolution(last.bearer[1], users, now) = "ok"
     /\ users[last.bearer[1].sub[1]].role # "ADMIN")
    => LET r == last.bearer[1].sub[1]
       IN /\ \A i \in DOMAIN last.logs : last.logs[i].user_id = r
          /\ (last.op = "get_audit_logs" /\ last.target # None /\ last.target # Some(r))
                => (last.status = 403 /\ last.logs = <<>>)

\* C2 witness: a non-admin has listed the ledger, got rows, and the ledger
\* holds rows of another user.
C2_Witness ==
    /\ last.op = "get_audit_logs"
    /\ last.status = 200
    /\ last.user = Some(2)
    /\ Len(last.logs) >= 1
    /\ \E i \in DOMAIN ledger : ledger[i].user_id # 2

\* C3. Ownership-policy asymmetry on a stored task: a non-admin is refused
\* (403) by delete_task exactly when they are not the creator, and by get_task
\* and update_task exactly when they are neither creator nor assignee; an
\* ADMIN is never refused; a refused request leaves tasks and ledger unchanged.
C3_Ownership ==
    [][(/\ last'.op \in {"get_task", "update_task", "delete_task"}
        /\ Resolution(last'.bearer[1], users, now) = "ok"
        /\ last'.target[1] \in DOMAIN tasks)
       => LET uid == last'.bearer[1].sub[1]
              task == tasks[last'.target[1]]
              admin == users[uid].role = "ADMIN"
              creator == task.created_by_id = uid
              assignee == task.assigned_to_id = Some(uid)
              permitted == IF last'.op = "delete_task"
                           THEN admin \/ creator
                           ELSE admin \/ creator \/ assignee
          IN /\ (last'.status = 403) <=> ~permitted
             /\ last'.status = 403 => (tasks' = tasks /\ ledger' = ledger)]_vars

\* C3 witness: the assignee of a task somebody else created has been refused
\* its deletion.
C3_Witness ==
    /\ last.op = "delete_task"
    /\ last.status = 403
    /\ last.user = Some(3)
    /\ 1 \in DOMAIN tasks
    /\ tasks[1].assigned_to_id = Some(3)
    /\ tasks[1].created_by_id = 2

\* C4. Identity resolution: 401 when the token is invalid, expired or without
\* subject, or the subject is no stored user; 403 when the token is valid and
\* the subject is a stored, inactive user; the user when the token is valid and
\* the subject is a stored, active user.  (GET /me returns get_current_user's
\* answer.)
C4_Resolve ==
    last.op = "me"
    => LET res == Resolution(last.bearer[1], users, now)
       IN /\ res \in {"invalid", "unknown"} => (last.status = 401 /\ last.user = None)
          /\ res = "inactive" => (last.status = 403 /\ last.user = None)
          /\ res = "ok" => (last.status = 200 /\ last.user = last.bearer[1].sub)

\* C4 witness: a valid token of a deactivated user has been refused with 403.
C4_Witness ==
    /\ last.op = "me"
    /\ last.status = 403
    /\ Resolution(last.bearer[1], users, now) = "inactive"

\* C5. Task mutations are atomic with their audit entry: a create_task,
\* update_task or delete_task whose audit INSERT fails answers with an error
\* and leaves the task store as it was before the request.
C5_Atomic ==
    [][(last'.op \in {"create_task", "update_task", "delete_task"}
        /\ last'.audit = "failed")
       => (last'.status >= 500 /\ tasks' = tasks)]_vars

\* C6. After every delete_task request the ledger holds a TASK_DELETE row for
\* a task exactly when the task is removed from the store, and at most one
\* such row per task.
DeleteRows(t) ==
    {i \in DOMAIN ledger : /\ ledger[i].event_type = "TASK_DELETE"
                           /\ ledger[i].resource_id = Some(t)}

C6_DeleteRowIffRemoved ==
    \A t \in 1..task_seq :
        /\ (DeleteRows(t) # {}) <=> (t \notin DOMAIN tasks)
        /\ Cardinality(DeleteRows(t)) <= 1

\* C7. Registration does not depend on audit success: when the user row is
\* committed and the USER_REGISTER insert fails, register answers 201 with a
\* token and the user stays stored.
C7_RegisterIgnoresAudit ==
    (last.op = "register" /\ last.commit = "ok" /\ last.audit = "failed")
    => /\ last.status = 201
       /\ last.token # None
       /\ UserByEmail(last.input[1]) # {}

\* C8. Login and logout do not depend on audit success: a login with the
\* password of an active account answers 200 with a token for that account,
\* and a logout of an authenticated user answers 200, whether or not the audit
\* insert fails.
C8_AuthIgnoresAudit ==
    /\ last.op = "login"
       => \A uid \in DOMAIN users :
             (/\ users[uid].email = last.input[1]
              /\ users[uid].password_hash = hash_password(last.input[2])
              /\ users[uid].is_active)
             => /\ last.status = 200
                /\ last.token # None
                /\ last.token[1].sub = Some(uid)
                /\ last.token[1].sig = "good"
    /\ (last.op = "logout" /\ Resolution(last.bearer[1], users, now) = "ok")
       => last.status = 200

\* C8 witness: a login with correct credentials whose audit insert failed has
\* been answered with a token.
C8_Witness ==
    /\ last.op = "login"
    /\ last.audit = "failed"
    /\ last.status = 200
    /\ last.token # None

AdminGate(token, table, time) ==
    LET res == Resolution(token, table, time)
    IN IF res \in {"invalid", "unknown"} THEN 401
       ELSE IF res = "inactive" THEN 403
       ELSE IF table[token.sub[1]].role # "ADMIN" THEN 403
       ELSE 0

C10_ActivateAdminRejected ==
    [][(/\ last'.op = "activate_user"
        /\ last'.target[1] \in DOMAIN users
        /\ users[last'.target[1]].role = "ADMIN")
       => (/\ last'.status >= 400
           /\ users' = users)]_vars

\* C10 as amended. activate_user has no ADMIN guard: for a target of role ADMIN
\* an active ADMIN requester is answered 200 and the target's is_active is
\* true afterwards (500 and no change when the commit fails); every other
\* requester is answered 401 or 403 by the admin-only dependency and nothing
\* changes.  No other row and no other table changes.
C10_ActivateAdminAccepted ==
    [][(/\ last'.op = "activate_user"
        /\ last'.target[1] \in DOMAIN users
        /\ users[last'.target[1]].role = "ADMIN")
       => LET gate == AdminGate(last'.bearer[1], users, now)
              t == last'.target[1]
          IN /\ <<tasks', task_seq', ledger'>> = <<tasks, task_seq, ledger>>
             /\ gate # 0 => (last'.status = gate /\ users' = users)
             /\ (gate = 0 /\ last'.commit = "failed")
                   => (last'.status = 500 /\ users' = users)
             /\ (gate = 0 /\ last'.commit # "failed")
                   => /\ last'.status = 200
                      /\ users' = [users EXCEPT ![t].is_active = TRUE]]_vars

\* C10 witness: an administrator's request to activate an administrator has
\* been answered 200.
C10_Witness ==
    /\ last.op = "activate_user"
    /\ last.target = Some(1)
    /\ last.status = 200
    /\ users[1].role = "ADMIN"
    /\ users[1].is_active

\* C11. Logout does not invalidate the token.  A logout changes nothing but
\* the ledger, to which it appends at most one row, a USER_LOGOUT row of the
\* requester; the token of a successful logout, presented again while it is
\* unexpired and the identity is active, resolves to the same identity, in the
\* very next request and in any later one.
C11_LogoutKeepsToken ==
    /\ [][/\ last'.op = "logout"
             => /\ <<users', tasks', task_seq', now'>> = <<users, tasks, task_seq, now>>
                /\ \/ ledger' = ledger /\ (last'.status # 200 \/ last'.audit = "failed")
                   \/ /\ last'.status = 200
                      /\ last'.audit = "ok"
                      /\ Len(ledger') = Len(ledger) + 1
                      /\ IsPrefix(ledger, ledger')
                      /\ ledger'[Len(ledger')].event_type = "USER_LOGOUT"
                      /\ ledger'[Len(ledger')].user_id = last'.user[1]
          /\ (/\ last.op = "logout" /\ last.status = 200
              /\ last'.op = "me" /\ last'.bearer = last.bearer
              /\ last.bearer[1].exp >= now'
              /\ users'[last.user[1]].is_active)
             => (last'.status = 200 /\ last'.user = last.user)]_vars
    /\ [](\A i \in DOMAIN ledger :
            (/\ ledger[i].event_type = "USER_LOGOUT"
             /\ last.op = "me"
             /\ last.bearer[1].sig = "good"
             /\ last.bearer[1].sub = Some(ledger[i].user_id)
             /\ last.bearer[1].exp >= now
             /\ users[ledger[i].user_id].is_active)
            => (last.status = 200 /\ last.user = Some(ledger[i].user_id)))

\* C11 witness: a user whose logout is in the ledger has presented the token
\* again and has been resolved.
C11_Witness ==
    /\ last.op = "me"
    /\ last.status = 200
    /\ \E i \in DOMAIN ledger : /\ ledger[i].event_type = "USER_LOGOUT"
                                /\ Some(ledger[i].user_id) = last.user

\* C12. Idempotent verification: verify_token and decode_token change no
\* state; on a token create_access_token made for subject s, unexpired, each
\* call gives subject s; on a token whose signature was tampered with (or
\* which is no JWT) each call gives None.  (The clock's step leaves the record
\* of the last call as it is; every other step with one of the two names in
\* last'.op is a call.)
C12_Verify ==
    [][(last'.op \in {"verify_token", "decode_token"} /\ last' # last)
       => LET t == last.token[1]
              s == last.input[1]
          IN /\ <<users', tasks', task_seq', ledger', now'>> = <<users, tasks, task_seq, ledger, now>>
             /\ last'.token = last.token
             /\ (t.sig = "good" /\ t.exp >= now)
                   => IF last'.op = "verify_token"
                      THEN last'.payload # None /\ last'.payload[1].sub = s
                      ELSE last'.user = s
             /\ t.sig # "good"
                   => (last'.payload = None /\ last'.user = None)]_vars

\* C12 witness: a token minted for subject 2 has been verified after the clock
\* moved on, and gave subject 2.
C12_Witness ==
    /\ last.op = "verify_token"
    /\ now >= 1
    /\ last.input[1] = Some(2)
    /\ last.payload # None
    /\ last.payload[1].sub = Some(2)

\* C13. Expiry and failure collapse: verify_token gives None for a token
\* whose exp is before the current time, for a badly signed token and for a
\* malformed one (one outcome for the three causes); the clock never goes
\* back, and a token verify_token has rejected is rejected by every later call.
C13_Expiry ==
    [][/\ now' >= now
       /\ (last'.op = "verify_token" /\ last' # last)
          => LET t == last'.token[1]
             IN (t.exp < now \/ t.sig = "bad" \/ t.sig = "malformed")
                => last'.payload = None
       /\ (/\ last.op = "verify_token" /\ last.payload = None
           /\ last'.op = "verify_token" /\ last'.token = last.token)
          => last'.payload = None]_vars

\* C13 witness: a well signed token that was valid when it was minted has
\* been rejected after its expiry.
C13_Witness ==
    /\ last.op = "verify_token"
    /\ last.payload = None
    /\ last.token[1].sig = "good"
    /\ last.input[2] = Some(1)
    /\ last.token[1].exp < now

\* C14. Token TTL override: the exp of a token create_access_token returns is
\* the time of the call plus the expires_delta passed, whatever its value
\* (zero and negative included), and plus the configured default only when
\* none is passed.
C14_TtlOverride ==
    [][last'.op = "create_access_token"
       => LET expires_delta == last'.input[2]
          IN last'.token[1].exp =
                now + (IF expires_delta # None THEN expires_delta[1]
                       ELSE ACCESS_TOKEN_EXPIRE_MINUTES)]_vars

\* C15. Failed login: a login with the email of a stored identity and a wrong
\* password is answered 401 without a token, leaves the users table (last_login
\* included) and the tasks unchanged, and appends exactly one row, of kind
\* USER_LOGIN_FAILED, status failure and that identity as actor; only when the
\* INSERT of that row fails is nothing appended.
C15_FailedLogin ==
    [][\A uid \in DOMAIN users :
          (/\ last'.op = "login"
           /\ users[uid].email = last'.input[1]
           /\ users[uid].password_hash # hash_password(last'.input[2]))
          => /\ last'.status = 401
             /\ last'.token = None
             /\ <<users', tasks', task_seq'>> = <<users, tasks, task_seq>>
             /\ IF last'.audit = "failed"
                THEN ledger' = ledger
                ELSE /\ Len(ledger') = Len(ledger) + 1
                     /\ IsPrefix(ledger, ledger')
                     /\ ledger'[Len(ledger')].event_type = "USER_LOGIN_FAILED"
                     /\ ledger'[Len(ledger')].status = "failure"
                     /\ ledger'[Len(ledger')].user_id = uid]_vars

\* C15 witness: a wrong password for a@x has been answered 401 and its
\* USER_LOGIN_FAILED row is the newest of the ledger.
C15_Witness ==
    /\ last.op = "login"
    /\ last.input = <<"a@x", "secret123">>
    /\ last.status = 401
    /\ last.audit = "ok"
    /\ ledger[Len(ledger)].event_type = "USER_LOGIN_FAILED"
    /\ ledger[Len(ledger)].user_id = 2

\* the rows a list request is about: the requester's scope and every filter
\* of the request, stated from the ledger and the recorded request
Listed ==
    LET r == last.user[1]
    IN {row \in Rows :
          /\ (users[r].role # "ADMIN" \/ last.op = "get_my_history") => row.user_id = r
          /\ (last.op = "get_audit_logs" /\ last.target # None)
                => row.user_id = last.target[1]
          /\ last.input[3] # None => row.event_type = last.input[3][1]
          /\ last.input[4] # None => row.timestamp >= last.input[4][1]
          /\ last.input[5] # None => row.timestamp <= last.input[5][1]}

ListOffset == (last.input[1] - 1) * last.input[2]

\* C16. Ordering: a page of get_audit_logs or get_my_history is sorted by
\* timestamp descending, and its rows stand where the descending order of the
\* whole filtered set puts them: a row at position i of page p has at most
\* (p-1)*s + i - 1 rows of greater timestamp in the set (they are before it, on
\* this page or an earlier one) and at least (p-1)*s + i rows of timestamp
\* not smaller.
C16_Ordering ==
    (last.op \in {"get_audit_logs", "get_my_history"} /\ last.status = 200)
    => /\ \A i, j \in DOMAIN last.logs :
             i < j => last.logs[i].timestamp >= last.logs[j].timestamp
       /\ \A i \in DOMAIN last.logs :
             /\ Cardinality({a \in Listed : a.timestamp > last.logs[i].timestamp})
                   <= ListOffset + i - 1
             /\ Cardinality({a \in Listed : a.timestamp >= last.logs[i].timestamp})
                   >= ListOffset + i

\* C16 witness: a page with a newer row before an older one, out of a set
\* larger than the page.
C16_Witness ==
    /\ last.op \in {"get_audit_logs", "get_my_history"}
    /\ last.status = 200
    /\ Len(last.logs) = 2
    /\ last.logs[1].timestamp > last.logs[2].timestamp
    /\ last.total = 3

\* the sequences that hold each row of a set once, in descending timestamp order
DescendingOrders(rows) ==
    {f \in [1..Cardinality(rows) -> rows] :
        \A i, j \in 1..Cardinality(rows) :
            i < j => (f[i] # f[j] /\ f[i].timestamp >= f[j].timestamp)}

\* C17. List result: get_audit_logs returns total = the number of rows in the
\* requester's scope that pass every supplied filter, whatever the page and
\* the page size, and returns the rows at positions (p-1)*s+1 .. p*s of that
\* set in a descending timestamp order, none when (p-1)*s >= total.
C17_ListResult ==
    (last.op = "get_audit_logs" /\ last.status = 200)
    => /\ last.input[1] >= 1
       /\ last.total = Cardinality(Listed)
       /\ ListOffset >= last.total => last.logs = <<>>
       /\ \E f \in DescendingOrders(Listed) :
             last.logs = SubSeq(f, ListOffset + 1,
                                IF ListOffset + last.input[2] < last.total
                                THEN ListOffset + last.input[2] ELSE last.total)

\* C17 witness: the administrator has got the second page, of one row, of a
\* filtered set of two rows out of a ledger of three.
C17_Witness ==
    /\ last.op = "get_audit_logs"
    /\ last.status = 200
    /\ last.user = Some(1)
    /\ last.input[1] = 2
    /\ last.input[2] = 1
    /\ last.total = 2
    /\ Len(last.logs) = 1
    /\ Len(ledger) = 3

\* C18 as claimed. Page-size cap by clamping: a list request of a resolved
\* requester with page_size above the maximum is served, with at most the
\* maximum number of rows.
C18_Clamped ==
    (/\ last.op \in {"get_audit_logs", "get_my_history"}
     /\ last.input[2] > PageSizeMax
     /\ Resolution(last.bearer[1], users, now) = "ok")
    => (last.status = 200 /\ Len(last.logs) <= PageSizeMax)

\* C18 as amended. Page-size cap by rejection: a list request with page_size
\* above the maximum is never served; it returns no rows, and a resolved
\* requester is answered 422.  A served list request has a page_size of at
\* most the maximum and carries at most page_size rows.
C18_Rejected ==
    last.op \in {"get_audit_logs", "get_my_history"}
    => /\ last.input[2] > PageSizeMax
          => /\ last.status # 200
             /\ last.logs = <<>>
             /\ Resolution(last.bearer[1], users, now) = "ok" => last.status = 422
       /\ last.status = 200
          => (last.input[2] <= PageSizeMax /\ Len(last.logs) <= last.input[2])

\* C18 witness: a request for a page of one more row than the maximum has been
\* answered 422.
C18_Witness ==
    /\ last.op = "get_audit_logs"
    /\ last.input[2] = PageSizeMax + 1
    /\ last.status = 422
    /\ last.logs = <<>>

\* C19. Single-record fetch, existence first and ownership second: for a
\* resolved requester get_audit_log answers 404 when no row has the id, admin
\* or not; 403 when the row exists, the requester is no ADMIN and the row's
\* user_id is another identity; and the row itself when the requester is ADMIN
\* or the row's actor.
C19_Fetch ==
    (last.op = "get_audit_log" /\ Resolution(last.bearer[1], users, now) = "ok")
    => LET r == last.bearer[1].sub[1]
           found == {row \in Rows : row.id = last.target[1]}
       IN /\ found = {} => (last.status = 404 /\ last.logs = <<>>)
          /\ \A row \in found :
                IF users[r].role = "ADMIN" \/ row.user_id = r
                THEN last.status = 200 /\ last.logs = <<row>>
                ELSE last.status = 403 /\ last.logs = <<>>

\* C19 witness: a user has been refused a row of somebody else, which exists.
C19_Witness ==
    /\ last.op = "get_audit_log"
    /\ last.status = 403
    /\ last.user = Some(2)
    /\ \E i \in DOMAIN ledger : ledger[i].id = last.target[1] /\ ledger[i].user_id = 3

\* the start of the current day: the last multiple of DayLength not after now
Midnight == CHOOSE m \in 0..now : m % DayLength = 0 /\ m + DayLength > now

Count(event_type) ==
    Cardinality({i \in DOMAIN ledger : ledger[i].event_type = event_type})

AdminOnly ==
    {"get_audit_stats", "get_all_users", "get_user_by_id", "deactivate_user",
     "activate_user"}

\* C21. Admin-only operations: get_audit_stats, get_all_users, get_user_by_id,
\* deactivate_user and activate_user answer 403 to every requester whose token
\* resolves to an identity of a role other than ADMIN, give that requester no
\* data and change no state; get_audit_stats changes no state for anybody.
C21_AdminOnly ==
    [][/\ (/\ last'.op \in AdminOnly
           /\ Resolution(last'.bearer[1], users, now) \in {"ok", "inactive"}
           /\ users[last'.bearer[1].sub[1]].role # "ADMIN")
          => /\ last'.status = 403
             /\ last'.payload = None
             /\ <<users', tasks', task_seq', ledger', now'>> = <<users, tasks, task_seq, ledger, now>>
       /\ last'.op = "get_audit_stats"
          => <<users', tasks', task_seq', ledger', now'>> = <<users, tasks, task_seq, ledger, now>>]_vars

\* C21 witness: an active user has been refused the list of users.
\* C21 witness: an active user without the ADMIN role has asked for the list of
\* users and has been answered 403.
C21_Witness ==
    /\ last.op = "get_all_users"
    /\ last.status = 403
    /\ last.bearer = Some(TokenOf(2))
    /\ users[2].is_active

\* C22. Optional resolution never raises: get_optional_user behind the bearer
\* scheme gives the active identity of a valid token and None in every other
\* case, missing credentials included, and never an error response.
C22_NeverRaises ==
    last.op = "get_optional_user"
    => /\ last.status = 200
       /\ last.user = IF last.bearer = None THEN None
                      ELSE IF Resolution(last.bearer[1], users, now) = "ok"
                      THEN last.bearer[1].sub
                      ELSE None

\* C23. Unique email under concurrency: a register request answered while its
\* email is already registered, also when the other registration committed
\* after this request's existence check, gets 409, creates no user and
\* appends no audit row.
C23_Conflict ==
    [][(/\ last'.op = "register"
        /\ (last' # last \/ inflight' # inflight)
        /\ Len(inflight') <= Len(inflight)
        /\ UserByEmail(last'.input[1]) # {})
       => /\ last'.status = 409
          /\ users' = users
          /\ ledger' = ledger]_vars

\* the login of the record r named an email no user has
NoSuchEmail(r) == \A i \in 1..Len(users) : users[i].email # r.input[1]

\* the login of the record r named a user and not that user's password
WrongPassword(r) ==
    \E i \in 1..Len(users) :
        /\ users[i].email = r.input[1]
        /\ users[i].password_hash # <<"bcrypt", r.input[2]>>

\* what the caller of login sees
Observable(r) == <<r.status, r.detail, r.token>>

\* C24. Login does not reveal whether an email exists: a login with an
\* unknown email and a login with a known email and a wrong password are
\* answered alike: 401, the same message, no token.
C24_SameOutcome ==
    [][(/\ last.op = "login" /\ last'.op = "login"
        /\ NoSuchEmail(last) \/ WrongPassword(last)
        /\ NoSuchEmail(last') \/ WrongPassword(last'))
       => /\ Observable(last') = Observable(last)
          /\ last'.status = 401
          /\ last'.token = None]_vars

\* C24 witness: a login with an unknown email has been answered 401 after a
\* wrong-password login for a@x was recorded.
C24_Witness ==
    /\ last.op = "login"
    /\ NoSuchEmail(last)
    /\ last.status = 401
    /\ \E i \in 1..Len(ledger) :
          /\ ledger[i].event_type = "USER_LOGIN_FAILED"
          /\ ledger[i].user_id = 2

\* C25. Update diff: the changes map of the TASK_UPDATE row has a key for a
\* field exactly when the field's value before the update differs from its
\* value after it, and the entry is {old: value before, new: value after}.
C25_Diff ==
    [][(/\ last'.op = "update_task"
        /\ last'.status = 200
        /\ Len(ledger') = Len(ledger) + 1)
       => LET id == last'.target[1]
              row == ledger'[Len(ledger')]
          IN /\ row.event_type = "TASK_UPDATE"
             /\ row.changes # None
             /\ DOMAIN row.changes[1] \subseteq TaskFields
             /\ \A f \in TaskFields :
                   /\ f \in DOMAIN row.changes[1] <=> tasks[id][f] # tasks'[id][f]
                   /\ f \in DOMAIN row.changes[1]
                         => row.changes[1][f] = [old |-> tasks[id][f],
                                                 new |-> tasks'[id][f]]]_vars

\* C25 witness: an update that changed the title and the assignee and left the
\* other fields has been recorded.
C25_Witness ==
    /\ last.op = "update_task"
    /\ last.status = 200
    /\ ledger # <<>>
    /\ ledger[Len(ledger)].event_type = "TASK_UPDATE"
    /\ ledger[Len(ledger)].changes # None
    /\ DOMAIN ledger[Len(ledger)].changes[1] = {"title", "assigned_to_id"}

\* C30. An authorized update_task request that changes no field value (every
\* supplied field equals the stored value, or none is supplied) still
\* appends one TASK_UPDATE row, whose changes map is empty, and leaves the
\* task's fields unchanged.
C30_NoOpUpdate ==
    [][(/\ last'.op = "update_task"
        /\ last'.status = 200
        /\ last' # last \/ ledger' # ledger
        /\ \A f \in TaskFields : tasks'[last'.target[1]][f] = tasks[last'.target[1]][f])
       => /\ tasks' = tasks
          /\ Len(ledger') = Len(ledger) + 1
          /\ SubSeq(ledger', 1, Len(ledger)) = ledger
          /\ ledger'[Len(ledger')].event_type = "TASK_UPDATE"
          /\ ledger'[Len(ledger')].resource_id = last'.target
          /\ ledger'[Len(ledger')].changes = Some(<< >>)]_vars

\* C30 witness: an update that changed nothing has been recorded with an empty
\* changes map.
C30_Witness ==
    /\ last.op = "update_task"
    /\ last.status = 200
    /\ ledger # <<>>
    /\ ledger[Len(ledger)].event_type = "TASK_UPDATE"
    /\ ledger[Len(ledger)].changes = Some(<< >>)
    /\ tasks[1].title = "Fix bug"
    /\ tasks[1].assigned_to_id = None

\* C26. Roles are fixed: register creates a user with role USER and
\* is_active true, no step changes the role of a stored user or removes one,
\* so the ADMIN users are the same in every state, and an active ADMIN stays
\* active.
C26_RolesFixed ==
    [][/\ Len(users') >= Len(users)
       /\ \A i \in 1..Len(users) :
             /\ users'[i].role = users[i].role
             /\ users'[i].email = users[i].email
             /\ (users[i].role = "ADMIN" /\ users[i].is_active) => users'[i].is_active
       /\ \A i \in (Len(users) + 1)..Len(users') :
             /\ last'.op = "register"
             /\ users'[i].role = "USER"
             /\ users'[i].is_active]_vars

\* C26 witness: with a fourth user registered, a request to deactivate the
\* administrator has been refused.
C26_Witness ==
    /\ last.op = "deactivate_user"
    /\ last.target = Some(1)
    /\ last.status = 400
    /\ Len(users) = 4
    /\ users[4].role = "USER"
    /\ users[1].role = "ADMIN" /\ users[1].is_active

\* the stored user a login names, when that user is switched off
InactiveAccount(r) ==
    {i \in 1..Len(users) : users[i].email = r.input[1] /\ ~users[i].is_active}

\* C27. Login checks the password before the active flag: for an inactive
\* user a wrong password gives 401 and appends a USER_LOGIN_FAILED row (when
\* the audit insert goes through), the correct password gives 403 with no
\* token, no audit row and last_login unchanged.
C27_PasswordFirst ==
    [][(/\ last'.op = "login"
        /\ last' # last \/ ledger' # ledger
        /\ InactiveAccount(last') # {})
       => \A i \in InactiveAccount(last') :
             /\ users' = users
             /\ last'.token = None
             /\ users[i].password_hash # <<"bcrypt", last'.input[2]>>
                   => /\ last'.status = 401
                      /\ last'.audit = "ok"
                            => /\ Len(ledger') = Len(ledger) + 1
                               /\ SubSeq(ledger', 1, Len(ledger)) = ledger
                               /\ ledger'[Len(ledger')].event_type = "USER_LOGIN_FAILED"
                               /\ ledger'[Len(ledger')].user_id = i
                      /\ last'.audit # "ok" => ledger' = ledger
             /\ users[i].password_hash = <<"bcrypt", last'.input[2]>>
                   => /\ last'.status = 403
                      /\ ledger' = ledger]_vars

\* C27 witness: a wrong-password login to the deactivated account a@x has been
\* answered 401 and recorded.
C27_Witness ==
    /\ last.op = "login"
    /\ last.status = 401
    /\ last.input = <<"a@x", "secret123">>
    /\ ~users[2].is_active
    /\ ledger[Len(ledger)].event_type = "USER_LOGIN_FAILED"
    /\ ledger[Len(ledger)].user_id = 2

\* C28. A login attempt for an email that matches no user leaves the whole
\* state unchanged: no audit row is appended, no user is touched, and the
\* failed_logins count of the statistics stays what it was.
C28_UnknownEmailNoTrace ==
    [][(/\ last'.op = "login"
        /\ last' # last
        /\ NoSuchEmail(last'))
       => /\ last'.status = 401
          /\ last'.token = None
          /\ last'.audit = "none"
          /\ <<users', tasks', task_seq', ledger', now'>> = <<users, tasks, task_seq, ledger, now>>
          /\ CountEvents("USER_LOGIN_FAILED")' = CountEvents("USER_LOGIN_FAILED")]_vars

\* C28 witness: a login with an unknown email has been answered 401 and the
\* ledger holds the two seed rows only.
C28_Witness ==
    /\ last.op = "login"
    /\ last.input = <<"nobody@x", "Secret123">>
    /\ last.status = 401
    /\ Len(ledger) = 2

\* C29. Deactivation suspends a token and does not revoke it: a well-signed,
\* unexpired token of a stored user is answered 403 while the user is
\* inactive and resolves to the user while the user is active, whatever
\* happened before; activate_user sets the flag again, deactivate_user clears
\* it, and no other request (logout included) touches it.
C29_SuspendedNotRevoked ==
    [][/\ last'.op = "me"
          => LET t == last'.bearer[1]
             IN (/\ t.sig = "good"
                 /\ t.exp >= now'
                 /\ t.sub # None
                 /\ t.sub[1] \in 1..Len(users'))
                => IF users'[t.sub[1]].is_active
                   THEN last'.status = 200 /\ last'.user = t.sub
                   ELSE last'.status = 403 /\ last'.user = None
       /\ (last'.op = "activate_user" /\ last'.status = 200)
          => users' = [users EXCEPT ![last'.target[1]].is_active = TRUE]
       /\ (last'.op = "deactivate_user" /\ last'.status = 200)
          => users' = [users EXCEPT ![last'.target[1]].is_active = FALSE]
       /\ (last'.op \notin {"activate_user", "deactivate_user"} \/ last'.status # 200)
          => users' = users]_vars

\* C29 witness: an unexpired token of a@x is answered 403 while a@x is
\* deactivated, after a@x logged out with it.
C29_Witness ==
    /\ last.op = "me"
    /\ last.bearer = Some(TokenOf(2))
    /\ last.status = 403
    /\ ~users[2].is_active
    /\ now <= TokenOf(2).exp
    /\ \E i \in 1..Len(ledger) :
          ledger[i].event_type = "USER_LOGOUT" /\ ledger[i].user_id = 2
====
